---- MODULE Spec2Model ----
(***************************************************************************)
(* A model of the polling side of the Hipages lead detector                *)
(* (src/lead-detector.js): the poll loop, the diff of two snapshots, the   *)
(* notification deduplicator, the webhook delivery and the backoff.        *)
(***************************************************************************)
EXTENDS Integers, Sequences, FiniteSets, TLC

(***************************************************************************)
(* JavaScript values.  A parsed JSON value is a tagged record, so that     *)
(* values of different JavaScript types can be told apart and compared.    *)
(***************************************************************************)
Str(s) == [t |-> "str", s |-> s]
Num(n) == [t |-> "num", n |-> n]
Null == [t |-> "null"]
Undefined == [t |-> "undef"]
Obj(f) == [t |-> "obj", f |-> f]
Arr(a) == [t |-> "arr", a |-> a]

\* JavaScript truthiness: the tests `!item.id`, `lead.name`, `lead1.id && lead2.id`.
Truthy(v) ==
  CASE v.t = "str" -> v.s # ""
    [] v.t = "num" -> v.n # 0
    [] v.t \in {"null", "undef"} -> FALSE
    [] OTHER -> TRUE

\* typeof v === 'object' (true of null, of arrays and of objects).
TypeofObject(v) == v.t \in {"obj", "arr", "null"}

\* Array.isArray(v)
IsArray(v) == v.t = "arr"

\* obj.hasOwnProperty(k), for the property names the code asks about.
HasOwn(v, k) == v.t = "obj" /\ k \in DOMAIN v.f

\* The property read v.k of a non-null value (undefined when absent).
Prop(v, k) == IF HasOwn(v, k) THEN v.f[k] ELSE Undefined

\* a === b.  Two objects or arrays that come from different JSON.parse
\* calls are never the same reference.
StrictEq(a, b) == a.t \in {"str", "num", "null", "undef"} /\ a = b

\* The order in which the keys of a parsed object are visited.
KeyOrder ==
  <<"id", "name", "title", "description", "location", "address", "job", "type",
    "category", "timestamp", "leads", "data", "meta", "uniqueKey", "detectedAt">>

KeysOf(v) == SelectSeq(KeyOrder, LAMBDA k : HasOwn(v, k))

RECURSIVE Join(_, _)
\* Array.prototype.join(sep) on strings.
Join(parts, sep) ==
  IF parts = <<>> THEN ""
  ELSE IF Len(parts) = 1 THEN parts[1]
  ELSE parts[1] \o sep \o Join(Tail(parts), sep)

\* String(n) for the numbers of the model.
NumStr(n) ==
  CASE n = 0 -> "0" [] n = 1 -> "1" [] n = 2 -> "2" [] n = 7 -> "7" [] OTHER -> "9"

RECURSIVE ToStr(_)
\* The string conversion join() applies to a key part.
ToStr(v) ==
  CASE v.t = "str" -> v.s
    [] v.t = "num" -> NumStr(v.n)
    [] v.t = "obj" -> "[object Object]"
    [] v.t = "arr" -> Join([i \in 1..Len(v.a) |-> ToStr(v.a[i])], ",")
    [] OTHER -> ""

(***************************************************************************)
(* createUniqueKey, lines 853-866                                          *)
(***************************************************************************)
keyFields == <<"name", "title", "location", "address", "job", "type", "category">>

\* The keyParts of createUniqueKey: the values of the fields `present`.
KeyParts(lead, present) == [i \in 1..Len(present) |-> ToStr(Prop(lead, present[i]))]

createUniqueKey(lead) ==
  Join(KeyParts(lead, SelectSeq(keyFields, LAMBDA k : Truthy(Prop(lead, k)))), "|")

\* { ...item, uniqueKey }.  The spread of a number copies nothing; the index
\* keys an array would contribute are read by no comparison.
SpreadWithKey(item, uniqueKey) ==
  LET own == IF item.t = "obj" THEN DOMAIN item.f ELSE {}
  IN  Obj([k \in own \cup {"uniqueKey"} |->
             IF k = "uniqueKey" THEN Str(uniqueKey) ELSE item.f[k]])

\* The map/push step shared by both branches of extractLeadObjects.
WithKey(item) ==
  IF ~Truthy(Prop(item, "id")) THEN SpreadWithKey(item, createUniqueKey(item))
  ELSE item

(***************************************************************************)
(* isLikelyLeadObject, lines 833-848                                       *)
(***************************************************************************)
leadProperties ==
  {"id", "name", "title", "description", "location", "address", "job", "type", "category"}

\* The keys of KeyOrder that include 'lead', 'job', 'customer' or 'client'.
LeadLikeKeys == {"leads", "job"}

isLikelyLeadObject(obj) ==
  LET hasLeadProperties == \E prop \in leadProperties : HasOwn(obj, prop)
      hasLeadLikeKeys == \E key \in LeadLikeKeys : HasOwn(obj, key)
  IN  hasLeadProperties \/ hasLeadLikeKeys

RECURSIVE Flatten(_)
Flatten(seqs) == IF seqs = <<>> THEN <<>> ELSE Head(seqs) \o Flatten(Tail(seqs))

\* Object.values(item), in the order of the keys.
ValuesAt(item, ks) == [i \in 1..Len(ks) |-> item.f[ks[i]]]

ObjectValues(item) == ValuesAt(item, KeysOf(item))

RECURSIVE processItem(_)
RECURSIVE processAll(_)
\* The recursive search of extractLeadObjects, lines 800-824.
processItem(item) ==
  IF Truthy(item) /\ TypeofObject(item)
  THEN (IF isLikelyLeadObject(item) THEN <<WithKey(item)>> ELSE <<>>)
       \o processAll(IF IsArray(item) THEN item.a
                     ELSE SelectSeq(ObjectValues(item),
                                    LAMBDA v : Truthy(v) /\ TypeofObject(v)))
  ELSE <<>>

\* item.forEach(processItem), lines 814-822.
processAll(vals) == Flatten([i \in 1..Len(vals) |-> processItem(vals[i])])

(***************************************************************************)
(* extractLeadObjects, lines 785-828.  The result says whether the call    *)
(* threw (the read of `.id` on a null element) and, if not, the leads.     *)
(***************************************************************************)
extractLeadObjects(array) ==
  IF Len(array.a) > 0 /\ TypeofObject(array.a[1]) /\ array.a[1].t # "null"
  THEN IF \E i \in 1..Len(array.a) : array.a[i].t = "null"
       THEN [threw |-> TRUE, leads |-> <<>>]
       ELSE [threw |-> FALSE, leads |-> [i \in 1..Len(array.a) |-> WithKey(array.a[i])]]
  ELSE [threw |-> FALSE, leads |-> processItem(array)]

(***************************************************************************)
(* areLeadsEqual, lines 871-894                                            *)
(***************************************************************************)
fieldsToCompare == {"name", "title", "location", "address", "job", "type", "category"}

\* areLeadsEqual with the field comparison of lines 882-893 alone.
areLeadsEqualByFields(lead1, lead2) ==
  \A field \in fieldsToCompare :
    \/ ~HasOwn(lead1, field) \/ ~HasOwn(lead2, field)
    \/ StrictEq(lead1.f[field], lead2.f[field])

areLeadsEqual(lead1, lead2) ==
  IF Truthy(Prop(lead1, "id")) /\ Truthy(Prop(lead2, "id"))
  THEN StrictEq(Prop(lead1, "id"), Prop(lead2, "id"))
  ELSE IF Truthy(Prop(lead1, "uniqueKey")) /\ Truthy(Prop(lead2, "uniqueKey"))
  THEN StrictEq(Prop(lead1, "uniqueKey"), Prop(lead2, "uniqueKey"))
  ELSE \A field \in fieldsToCompare :
         \/ ~HasOwn(lead1, field)
         \/ ~HasOwn(lead2, field)
         \/ StrictEq(lead1.f[field], lead2.f[field])

(***************************************************************************)
(* detectLeadChangesFromArrays, lines 764-780                              *)
(***************************************************************************)
\* The value returned, lines 776-779 and 920-923.
Changes(hasChanges, newLeads) ==
  [threw |-> FALSE, hasChanges |-> hasChanges /\ Len(newLeads) > 0, newLeads |-> newLeads]

\* The filter of lines 770-774.
NewLeads(previousLeads, currentLeads) ==
  SelectSeq(currentLeads,
            LAMBDA currentLead :
              ~\E i \in 1..Len(previousLeads) : areLeadsEqual(previousLeads[i], currentLead))

\* Lines 769-779, on the two extractions.
DiffLeads(previousLeads, currentLeads) ==
  IF previousLeads.threw \/ currentLeads.threw
  THEN [threw |-> TRUE, hasChanges |-> FALSE, newLeads |-> <<>>]
  ELSE Changes(TRUE, NewLeads(previousLeads.leads, currentLeads.leads))

detectLeadChangesFromArrays(previousArray, currentArray) ==
  DiffLeads(extractLeadObjects(previousArray), extractLeadObjects(currentArray))

(***************************************************************************)
(* Raw payloads.  The body of a response is a text; the model keeps it as  *)
(* the sequence of its words.  A body that is JSON is kept as the value it *)
(* parses to, and its words are those of its serialisation.                *)
(***************************************************************************)
Text(chunks) == [fmt |-> "text", chunks |-> chunks]
Json(value) == [fmt |-> "json", value |-> value]

\* previousLeadsData === null (line 604): no payload stored.
NoData == [fmt |-> "none"]

RECURSIVE Serialize(_)
RECURSIVE SerializeFields(_, _)
\* The words of the JSON text of a value.
Serialize(v) ==
  CASE v.t = "str" -> <<v.s>>
    [] v.t = "num" -> <<NumStr(v.n)>>
    [] v.t = "arr" ->
         <<"[">> \o Flatten([i \in 1..Len(v.a) |-> Serialize(v.a[i])]) \o <<"]">>
    [] v.t = "obj" -> <<"{">> \o SerializeFields(v, KeysOf(v)) \o <<"}">>
    [] OTHER -> <<"null">>

SerializeFields(v, ks) ==
  Flatten([i \in 1..Len(ks) |-> <<ks[i]>> \o Serialize(v.f[ks[i]])])

\* The words of a payload.
Chunks(data) == IF data.fmt = "json" THEN Serialize(data.value) ELSE data.chunks

\* !leadsData (line 586) for a string: only the empty string is falsy.
IsEmptyData(data) == data.fmt = "text" /\ data.chunks = <<>>

\* JSON.parse with the catch of lines 596-601: null when the text is not JSON.
JSONparse(data) == IF data.fmt = "json" THEN data.value ELSE Null

(***************************************************************************)
(* removeDynamicContent, lines 929-946: the words the five regular         *)
(* expressions match, each replaced by its placeholder.                    *)
(***************************************************************************)
TimeWords == {"12:00:01", "12:00:02"}
DateWords == {"2024-01-01", "2024-01-02", "1/2/2024"}
CsrfWords == {"csrf='a1'", "csrf='b2'"}
SessionWords == {"session='s1'", "session='s2'"}

\* The five replacements, on the words of a text.
Replaced(words) ==
  [i \in 1..Len(words) |->
     CASE words[i] \in TimeWords -> "TIMESTAMP"
       [] words[i] \in DateWords -> "DATE"
       [] words[i] \in CsrfWords -> "CSRF_TOKEN"
       [] words[i] \in SessionWords -> "SESSION_ID"
       [] OTHER -> words[i]]

removeDynamicContent(data) == Replaced(Chunks(data))

(***************************************************************************)
(* extractLeadIdentifiers, lines 951-957: the words /lead-\w+/ matches.    *)
(***************************************************************************)
LeadIdWords == {"lead-7", "lead-8", "lead-9"}

extractLeadIdentifiers(data) == SelectSeq(Chunks(data), LAMBDA w : w \in LeadIdWords)

\* array.includes(x)
Includes(seq, x) == \E i \in 1..Len(seq) : seq[i] = x

(***************************************************************************)
(* detectLeadChangesFromStrings, lines 899-924.  detectedAt is the time of *)
(* the call; no comparison reads it.                                       *)
(***************************************************************************)
\* Line 912: the identifiers of the current text the previous one lacks.
NewLeadIds(prevLeadIds, currLeadIds) ==
  SelectSeq(currLeadIds, LAMBDA id : ~Includes(prevLeadIds, id))

\* Lines 915-918: a lead object for each new identifier.
LeadsOfIds(newLeadIds) ==
  [i \in 1..Len(newLeadIds) |->
     Obj([id |-> Str(newLeadIds[i]), detectedAt |-> Str("now")])]

\* detectLeadChangesFromStrings without the conjunction of line 921: any
\* difference of the cleaned texts is a change.
detectLeadChangesFromStringsAnyChange(previousData, currentData) ==
  [threw |-> FALSE,
   hasChanges |-> removeDynamicContent(previousData) # removeDynamicContent(currentData),
   newLeads |-> LeadsOfIds(NewLeadIds(extractLeadIdentifiers(previousData),
                                      extractLeadIdentifiers(currentData)))]

detectLeadChangesFromStrings(previousData, currentData) ==
  Changes(removeDynamicContent(previousData) # removeDynamicContent(currentData),
          LeadsOfIds(NewLeadIds(extractLeadIdentifiers(previousData),
                                extractLeadIdentifiers(currentData))))

(***************************************************************************)
(* detectLeadChanges, lines 751-759                                        *)
(***************************************************************************)
detectLeadChanges(previousData, currentData, previousArray, currentArray) ==
  IF IsArray(previousArray) /\ IsArray(currentArray)
  THEN detectLeadChangesFromArrays(previousArray, currentArray)
  ELSE detectLeadChangesFromStrings(previousData, currentData)

(***************************************************************************)
(* Configuration, CONFIG lines 49-73.  Times are in milliseconds.          *)
(***************************************************************************)
pollingInterval == 1000

\* changeDetection.ignoreFields as line 66 sets it, and another setting of
\* it.  No function of the detector reads it.
ignoreFieldsChoices == {{"timestamp", "lastUpdated", "viewCount"}, {"location"}}
baseBackoffDelay == 1000
maxBackoffDelay == 30000
deduplicationWindow == 5000

\* Math.random() * 1000 lies in [0, 1000).
JitterLimit == 1000

(***************************************************************************)
(* getBackoffDelay, lines 1062-1069, with the random jitter as an input.   *)
(***************************************************************************)
Min(a, b) == IF a <= b THEN a ELSE b

\* getBackoffDelay without the cap of Math.min.
getBackoffDelayNoCap(retryCount, jitter) == baseBackoffDelay * 2 ^ retryCount + jitter

getBackoffDelay(retryCount, jitter) ==
  LET delay == Min(baseBackoffDelay * 2 ^ retryCount, maxBackoffDelay)
  IN  delay + jitter

(***************************************************************************)
(* shouldSendNotification, lines 667-687, as a function of the clock and   *)
(* the notification state: the value returned and the state it leaves.     *)
(***************************************************************************)
\* newLeads.map(lead => lead.id || lead.uniqueKey), line 624.
LeadIdOf(lead) ==
  IF Truthy(Prop(lead, "id")) THEN Prop(lead, "id") ELSE Prop(lead, "uniqueKey")

LeadIdsOf(leads) == [i \in 1..Len(leads) |-> LeadIdOf(leads[i])]

Range(seq) == {seq[i] : i \in 1..Len(seq)}

\* shouldSendNotification with every in place of some at line 673: it returns
\* false only if all the identities of the batch were notified.
shouldSendNotificationEvery(now, lastNotificationTime, lastNotifiedLeadIds, leadIds) ==
  IF /\ now - lastNotificationTime < deduplicationWindow
     /\ \A i \in 1..Len(leadIds) : leadIds[i] \in lastNotifiedLeadIds
  THEN [ret |-> FALSE, lastNotificationTime |-> lastNotificationTime,
        lastNotifiedLeadIds |-> lastNotifiedLeadIds]
  ELSE [ret |-> TRUE, lastNotificationTime |-> now,
        lastNotifiedLeadIds |->
          IF now - lastNotificationTime < deduplicationWindow
          THEN lastNotifiedLeadIds \cup Range(leadIds) ELSE Range(leadIds)]

\* shouldSendNotification without the clear of line 679: outside the window
\* the set keeps the identities notified before.
shouldSendNotificationNoClear(now, lastNotificationTime, lastNotifiedLeadIds, leadIds) ==
  IF /\ now - lastNotificationTime < deduplicationWindow
     /\ \E i \in 1..Len(leadIds) : leadIds[i] \in lastNotifiedLeadIds
  THEN [ret |-> FALSE, lastNotificationTime |-> lastNotificationTime,
        lastNotifiedLeadIds |-> lastNotifiedLeadIds]
  ELSE [ret |-> TRUE, lastNotificationTime |-> now,
        lastNotifiedLeadIds |-> lastNotifiedLeadIds \cup Range(leadIds)]

\* shouldSendNotification with line 683 run before the overlap test: a call
\* that returns false still sets lastNotificationTime to now.
shouldSendNotificationTouch(now, lastNotificationTime, lastNotifiedLeadIds, leadIds) ==
  IF /\ now - lastNotificationTime < deduplicationWindow
     /\ \E i \in 1..Len(leadIds) : leadIds[i] \in lastNotifiedLeadIds
  THEN [ret |-> FALSE, lastNotificationTime |-> now,
        lastNotifiedLeadIds |-> lastNotifiedLeadIds]
  ELSE [ret |-> TRUE, lastNotificationTime |-> now,
        lastNotifiedLeadIds |->
          IF now - lastNotificationTime < deduplicationWindow
          THEN lastNotifiedLeadIds \cup Range(leadIds) ELSE Range(leadIds)]

\* shouldSendNotification without the window test of line 671: an identity
\* notified once suppresses for ever.
shouldSendNotificationNoWindow(now, lastNotificationTime, lastNotifiedLeadIds, leadIds) ==
  IF \E i \in 1..Len(leadIds) : leadIds[i] \in lastNotifiedLeadIds
  THEN [ret |-> FALSE, lastNotificationTime |-> lastNotificationTime,
        lastNotifiedLeadIds |-> lastNotifiedLeadIds]
  ELSE [ret |-> TRUE, lastNotificationTime |-> now,
        lastNotifiedLeadIds |-> lastNotifiedLeadIds \cup Range(leadIds)]

shouldSendNotification(now, lastNotificationTime, lastNotifiedLeadIds, leadIds) ==
  IF now - lastNotificationTime < deduplicationWindow
  THEN IF \E i \in 1..Len(leadIds) : leadIds[i] \in lastNotifiedLeadIds
       THEN [ret |-> FALSE,
             lastNotificationTime |-> lastNotificationTime,
             lastNotifiedLeadIds |-> lastNotifiedLeadIds]
       ELSE [ret |-> TRUE,
             lastNotificationTime |-> now,
             lastNotifiedLeadIds |-> lastNotifiedLeadIds \cup Range(leadIds)]
  ELSE [ret |-> TRUE,
        lastNotificationTime |-> now,
        lastNotifiedLeadIds |-> Range(leadIds)]

(***************************************************************************)
(* The detector as a state machine.                                        *)
(***************************************************************************)
VARIABLES
  minNewLeadsToNotify,    \* config.changeDetection.minNewLeadsToNotify
  isRunning,              \* this.isRunning
  previousLeadsData,      \* this.previousLeadsData: the raw baseline, or NoData
  previousLeadsArray,     \* this.previousLeadsArray: the parsed baseline
  retryCount,             \* this.retryCount (consecutiveFailures)
  loginRetryCount,        \* this.loginRetryCount
  sinceNotification,      \* Date.now() - this.lastNotificationTime, kept up to the window
  lastNotifiedLeadIds,    \* this.lastNotifiedLeadIds
  loops,                  \* the pollLeadsData chains: timer pending, fetch or POST awaited
  relogins,               \* the handleRelogin calls in progress, by phase, and what
                          \* the last one to end returned
  cyc,                    \* what the last step of a poll cycle did
  notifiedAgo,            \* per identity of lastNotifiedLeadIds, the time since the
                          \* last call of shouldSendNotification that let it through
  domPosts,               \* the batches the DOM-mutation callback has sent to the
                          \* webhook and that are not answered yet
  undelivered             \* identities of the polling batches that passed both checks
                          \* and that no POST completed with 2xx has carried since

vars ==
  <<minNewLeadsToNotify, isRunning, previousLeadsData, previousLeadsArray, retryCount,
    loginRetryCount, sinceNotification, lastNotifiedLeadIds, loops, relogins, cyc,
    undelivered,
    notifiedAgo, domPosts>>

\* Bounds of the model.
MaxLoops == 2
MaxRetry == 2
MaxLoginRetry == 4
MaxDomPosts == 2

Loops == 1..MaxLoops

\* The values minNewLeadsToNotify is configured with.
MinChoices == {1, 2}

\* The jitter values Math.random() * 1000 is drawn from in the model.
Jitters == {0, JitterLimit - 1}

\* The step of the clock.
TickStep == pollingInterval

L1 == Obj([id |-> Str("L1")])
L2 == Obj([id |-> Str("L2")])
L3 == Obj([id |-> Str("L3")])

\* The bodies the leads.data endpoint answers with in the model.
Snapshots ==
  { Json(Arr(<<L1>>)),
    Json(Arr(<<L1, L2>>)),
    Json(Arr(<<L1, L2, L3>>)),
    Json(Arr(<<L1, Null>>)),
    Text(<<"hello", "lead-7">>),
    Text(<<>>) }

\* A chain that is not running, one whose timer is pending, one that awaits
\* fetchLeadsData and one that awaits sendWebhookNotification.
Off == [pc |-> "off", delay |-> 0, data |-> NoData, batch |-> <<>>]
Timer(delay) == [pc |-> "timer", delay |-> delay, data |-> NoData, batch |-> <<>>]
Fetching == [pc |-> "fetch", delay |-> 0, data |-> NoData, batch |-> <<>>]
Posting(data, batch) == [pc |-> "post", delay |-> 0, data |-> data, batch |-> batch]

\* No identity has been through shouldSendNotification yet.
NoAges == [id \in {} |-> 0]

\* Time passes by one step for every identity, counted up to the window.
Aged(ages) ==
  [id \in DOMAIN ages |-> Min(ages[id] + TickStep, deduplicationWindow)]

\* Lines 677-685: the call returns true for these identities at this instant,
\* and the set keeps the identities of kept.
LetThrough(ages, ids, kept) ==
  [id \in kept |-> IF id \in ids THEN 0 ELSE ages[id]]

NoCycle == [kind |-> "none", data |-> NoData, batch |-> <<>>]

\* The constructor, lines 84-97.
Init ==
  /\ minNewLeadsToNotify \in MinChoices
  /\ isRunning = FALSE
  /\ previousLeadsData = NoData
  /\ previousLeadsArray = Null
  /\ retryCount = 0
  /\ loginRetryCount = 0
  /\ sinceNotification = deduplicationWindow
  /\ lastNotifiedLeadIds = {}
  /\ loops = [l \in Loops |-> Off]
  /\ relogins = [delay |-> 0, login |-> 0, last |-> "none"]
  /\ cyc = NoCycle
  /\ undelivered = {}
  /\ notifiedAgo = NoAges
  /\ domPosts = {}

\* changesBranch with the else branch of line 632 sending the batch as well:
\* the answer of shouldSendNotification is not followed.
changesBranchIgnoreDedup(d) ==
  IF d.threw THEN [kind |-> "threw", batch |-> <<>>]
  ELSE IF d.hasChanges /\ Len(d.newLeads) >= minNewLeadsToNotify
  THEN [kind |-> "post", batch |-> d.newLeads]
  ELSE IF d.hasChanges THEN [kind |-> "minor", batch |-> d.newLeads]
  ELSE [kind |-> "nochange", batch |-> d.newLeads]

\* The synchronous part of pollLeadsData that follows the fetch, lines 586-646:
\* the branch it takes on the body `data`, with the batch the diff returns.
\* changesBranch without the minimum-size test of line 620.
changesBranchNoMinimum(d) ==
  IF d.threw THEN [kind |-> "threw", batch |-> <<>>]
  ELSE IF d.hasChanges
  THEN IF shouldSendNotification(sinceNotification, 0, lastNotifiedLeadIds,
                                 LeadIdsOf(d.newLeads)).ret
       THEN [kind |-> "post", batch |-> d.newLeads]
       ELSE [kind |-> "suppressed", batch |-> d.newLeads]
  ELSE [kind |-> "nochange", batch |-> d.newLeads]

changesBranch(d) ==
  IF d.threw THEN [kind |-> "threw", batch |-> <<>>]
  ELSE IF d.hasChanges /\ Len(d.newLeads) >= minNewLeadsToNotify
  THEN IF shouldSendNotification(sinceNotification, 0, lastNotifiedLeadIds,
                                 LeadIdsOf(d.newLeads)).ret
       THEN [kind |-> "post", batch |-> d.newLeads]
       ELSE [kind |-> "suppressed", batch |-> d.newLeads]
  ELSE IF d.hasChanges THEN [kind |-> "minor", batch |-> d.newLeads]
  ELSE [kind |-> "nochange", batch |-> d.newLeads]

\* A diff result without the records whose identity was notified.
Unnotified(d) ==
  IF d.threw THEN d
  ELSE Changes(d.hasChanges,
               SelectSeq(d.newLeads, LAMBDA lead : LeadIdOf(lead) \notin lastNotifiedLeadIds))

\* pollBranch with a diff that reads the notification state.
pollBranchUnnotified(data) ==
  IF IsEmptyData(data) THEN [kind |-> "empty", batch |-> <<>>]
  ELSE IF previousLeadsData = NoData THEN [kind |-> "first", batch |-> <<>>]
  ELSE changesBranch(Unnotified(detectLeadChanges(previousLeadsData, data,
                                                  previousLeadsArray, JSONparse(data))))

\* pollBranch without the first-poll test of line 604: a first snapshot is
\* compared with an empty baseline.
pollBranchNoFirstPoll(data) ==
  IF IsEmptyData(data) THEN [kind |-> "empty", batch |-> <<>>]
  ELSE changesBranch(detectLeadChanges(
         IF previousLeadsData = NoData THEN Text(<<>>) ELSE previousLeadsData, data,
         IF previousLeadsData = NoData THEN Arr(<<>>) ELSE previousLeadsArray,
         JSONparse(data)))

pollBranch(data) ==
  IF IsEmptyData(data) THEN [kind |-> "empty", batch |-> <<>>]
  ELSE IF previousLeadsData = NoData THEN [kind |-> "first", batch |-> <<>>]
  ELSE changesBranch(detectLeadChanges(previousLeadsData, data,
                                       previousLeadsArray, JSONparse(data)))

\* The notification state shouldSendNotification(leadIds) leaves, with the
\* clock counted from the last notification.
Rebased(r) ==
  [since |-> sinceNotification - r.lastNotificationTime, ids |-> r.lastNotifiedLeadIds]

Notified(leadIds) ==
  Rebased(shouldSendNotification(sinceNotification, 0, lastNotifiedLeadIds, leadIds))

\* startDetection, lines 373-391, up to the first fetch of pollLeadsData.
StartDetection ==
  /\ ~isRunning
  /\ \E l \in Loops :
       /\ loops[l].pc = "off"
       /\ \A k \in Loops : k < l => loops[k].pc # "off"
       /\ loops' = [loops EXCEPT ![l] = Fetching]
  /\ isRunning' = TRUE
  /\ UNCHANGED <<domPosts, notifiedAgo, minNewLeadsToNotify, previousLeadsData, previousLeadsArray, retryCount,
                 loginRetryCount, sinceNotification, lastNotifiedLeadIds, relogins, cyc,
                 undelivered>>

\* stop, lines 1074-1079.
Stop ==
  /\ isRunning
  /\ isRunning' = FALSE
  /\ UNCHANGED <<domPosts, notifiedAgo, minNewLeadsToNotify, previousLeadsData, previousLeadsArray, retryCount,
                 loginRetryCount, sinceNotification, lastNotifiedLeadIds, loops, relogins,
                 cyc, undelivered>>

\* The timer callback without the isRunning test of line 578.
TimerFireWhileStopped(l) ==
  /\ loops[l].pc = "timer"
  /\ loops' = [loops EXCEPT ![l] = Fetching]
  /\ UNCHANGED <<domPosts, notifiedAgo, minNewLeadsToNotify, isRunning, previousLeadsData, previousLeadsArray,
                 retryCount, loginRetryCount, sinceNotification, lastNotifiedLeadIds,
                 relogins, cyc, undelivered>>

\* The setTimeout callback: pollLeadsData, lines 577-584.
TimerFire(l) ==
  /\ loops[l].pc = "timer"
  /\ loops' = [loops EXCEPT ![l] = IF isRunning THEN Fetching ELSE Off]
  /\ UNCHANGED <<domPosts, notifiedAgo, minNewLeadsToNotify, isRunning, previousLeadsData, previousLeadsArray,
                 retryCount, loginRetryCount, sinceNotification, lastNotifiedLeadIds,
                 relogins, cyc, undelivered>>

\* The failure path with getBackoffDelay called before retryCount++: the
\* delay is computed from the count of the failures before this one.
RescheduleFromOldCount(l, jitter) ==
  /\ retryCount' = retryCount + 1
  /\ loops' = [loops EXCEPT ![l] = Timer(getBackoffDelay(retryCount, jitter))]

\* The failure path of lines 588-591 and 657-660 without its setTimeout.
RescheduleNothing(l, jitter) ==
  /\ retryCount' = retryCount + 1
  /\ loops' = [loops EXCEPT ![l] = Off]

\* Lines 588-591 and 657-660: count the failure and retry after the backoff.
Reschedule(l, jitter) ==
  /\ retryCount' = retryCount + 1
  /\ loops' = [loops EXCEPT ![l] = Timer(getBackoffDelay(retryCount + 1, jitter))]

\* A cycle that ends in failure; the model stops failing at MaxRetry.
FailCycle(l, kind, data, batch) ==
  /\ retryCount < MaxRetry
  /\ \E jitter \in Jitters : Reschedule(l, jitter)
  /\ cyc' = [kind |-> kind, data |-> data, batch |-> batch]

\* Lines 648-652: reset the retry count and poll again after the interval.
EndCycle(l, kind, data, batch) ==
  /\ retryCount' = 0
  /\ loops' = [loops EXCEPT ![l] = Timer(pollingInterval)]
  /\ cyc' = [kind |-> kind, data |-> data, batch |-> batch]

\* An auth failure that does not call handleRelogin.
FetchAuthFailureNoRelogin(l) ==
  /\ loops[l].pc = "fetch"
  /\ loginRetryCount < MaxLoginRetry
  /\ FailCycle(l, "auth", NoData, <<>>)
  /\ UNCHANGED <<domPosts, notifiedAgo, minNewLeadsToNotify, isRunning, previousLeadsData, previousLeadsArray,
                 loginRetryCount, sinceNotification, lastNotifiedLeadIds, relogins,
                 undelivered>>

\* The response of lines 711-718: an auth failure.  handleRelogin is called
\* and not awaited; its first statements (lines 1016-1022) run at once.
FetchAuthFailure(l) ==
  /\ loops[l].pc = "fetch"
  /\ loginRetryCount < MaxLoginRetry
  /\ loginRetryCount' = loginRetryCount + 1
  /\ relogins' = IF loginRetryCount + 1 > 3
                 THEN [relogins EXCEPT !.delay = @ + 1]
                 ELSE [relogins EXCEPT !.login = @ + 1]
  /\ FailCycle(l, "auth", NoData, <<>>)
  /\ UNCHANGED <<domPosts, notifiedAgo, minNewLeadsToNotify, isRunning, previousLeadsData, previousLeadsArray,
                 sinceNotification, lastNotifiedLeadIds, undelivered>>

\* Lines 721-724 and 736-738: a status outside 2xx, or a transport error.
FetchError(l) ==
  /\ loops[l].pc = "fetch"
  /\ FailCycle(l, "fail", NoData, <<>>)
  /\ UNCHANGED <<domPosts, notifiedAgo, minNewLeadsToNotify, isRunning, previousLeadsData, previousLeadsArray,
                 loginRetryCount, sinceNotification, lastNotifiedLeadIds, relogins,
                 undelivered>>

\* AfterFetch with lines 637-638 moved into the branch of the delivery: a
\* suppressed batch leaves the baseline as it was.
AfterFetchKeepOnSuppress(l, data, b, n) ==
  /\ IF b.kind \in {"empty", "threw"} THEN FailCycle(l, b.kind, data, b.batch)
     ELSE IF b.kind = "first"
     THEN /\ loops' = [loops EXCEPT ![l] = Timer(pollingInterval)]
          /\ cyc' = [kind |-> b.kind, data |-> data, batch |-> b.batch]
          /\ UNCHANGED retryCount
     ELSE IF b.kind = "post"
     THEN /\ loops' = [loops EXCEPT ![l] = Posting(data, b.batch)]
          /\ cyc' = [kind |-> b.kind, data |-> data, batch |-> b.batch]
          /\ UNCHANGED retryCount
     ELSE EndCycle(l, b.kind, data, b.batch)
  /\ sinceNotification' =
       IF b.kind \in {"post", "suppressed"} THEN n.since ELSE sinceNotification
  /\ lastNotifiedLeadIds' =
       IF b.kind \in {"post", "suppressed"} THEN n.ids ELSE lastNotifiedLeadIds
  /\ previousLeadsData' =
       IF b.kind \in {"first", "minor"} THEN data ELSE previousLeadsData
  /\ previousLeadsArray' =
       IF b.kind \in {"first", "minor"} THEN JSONparse(data) ELSE previousLeadsArray
  /\ undelivered' =
       IF b.kind = "post" THEN undelivered \cup Range(LeadIdsOf(b.batch)) ELSE undelivered
  /\ notifiedAgo' =
       IF b.kind = "post" THEN LetThrough(notifiedAgo, Range(LeadIdsOf(b.batch)), n.ids)
       ELSE notifiedAgo

\* pollLeadsData from line 586 to its next await or to its end: `b` is the
\* branch taken on the body `data`, `n` the notification state a dedup check
\* leaves.
AfterFetch(l, data, b, n) ==
  /\ IF b.kind \in {"empty", "threw"} THEN FailCycle(l, b.kind, data, b.batch)
     ELSE IF b.kind = "first"
     THEN /\ loops' = [loops EXCEPT ![l] = Timer(pollingInterval)]
          /\ cyc' = [kind |-> b.kind, data |-> data, batch |-> b.batch]
          /\ UNCHANGED retryCount
     ELSE IF b.kind = "post"
     THEN /\ loops' = [loops EXCEPT ![l] = Posting(data, b.batch)]
          /\ cyc' = [kind |-> b.kind, data |-> data, batch |-> b.batch]
          /\ UNCHANGED retryCount
     ELSE EndCycle(l, b.kind, data, b.batch)
  /\ sinceNotification' =
       IF b.kind \in {"post", "suppressed"} THEN n.since ELSE sinceNotification
  /\ lastNotifiedLeadIds' =
       IF b.kind \in {"post", "suppressed"} THEN n.ids ELSE lastNotifiedLeadIds
  /\ previousLeadsData' =
       IF b.kind \in {"first", "suppressed", "minor"} THEN data ELSE previousLeadsData
  /\ previousLeadsArray' =
       IF b.kind \in {"first", "suppressed", "minor"} THEN JSONparse(data)
       ELSE previousLeadsArray
  /\ undelivered' =
       IF b.kind = "post" THEN undelivered \cup Range(LeadIdsOf(b.batch)) ELSE undelivered
  /\ notifiedAgo' =
       IF b.kind = "post" THEN LetThrough(notifiedAgo, Range(LeadIdsOf(b.batch)), n.ids)
       ELSE notifiedAgo

\* A dedup check reads the batch; where none is made the state is kept.
AfterBranch(l, data, b) == AfterFetch(l, data, b, Notified(LeadIdsOf(b.batch)))

\* Lines 731-733: the body arrived; pollLeadsData runs on.
FetchData(l, data) ==
  /\ loops[l].pc = "fetch"
  /\ AfterBranch(l, data, pollBranch(data))
  /\ UNCHANGED <<domPosts, minNewLeadsToNotify, isRunning, loginRetryCount, relogins>>

\* The webhook answered, lines 983-986: the promise resolves, with true for a
\* 2xx status, and pollLeadsData goes on at line 636.
PostAnswered(l, ok) ==
  /\ loops[l].pc = "post"
  /\ previousLeadsData' = loops[l].data
  /\ previousLeadsArray' = JSONparse(loops[l].data)
  /\ EndCycle(l, IF ok THEN "post2xx" ELSE "postNon2xx", loops[l].data, loops[l].batch)
  /\ undelivered' = IF ok THEN undelivered \ Range(LeadIdsOf(loops[l].batch))
                    ELSE undelivered
  /\ UNCHANGED <<domPosts, notifiedAgo, minNewLeadsToNotify, isRunning, loginRetryCount, sinceNotification,
                 lastNotifiedLeadIds, relogins>>

\* The request failed, lines 988-991: the promise rejects, the await of line
\* 626 throws and the catch of lines 653-661 runs.
PostError(l) ==
  /\ loops[l].pc = "post"
  /\ FailCycle(l, "postError", loops[l].data, loops[l].batch)
  /\ UNCHANGED <<domPosts, notifiedAgo, minNewLeadsToNotify, isRunning, previousLeadsData, previousLeadsArray,
                 loginRetryCount, sinceNotification, lastNotifiedLeadIds, relogins,
                 undelivered>>

\* handleRelogin, line 1021: the wait of loginRetryDelay is over.
ReloginWake ==
  /\ relogins.delay > 0
  /\ relogins' = [relogins EXCEPT !.delay = @ - 1, !.login = @ + 1]
  /\ UNCHANGED <<domPosts, notifiedAgo, minNewLeadsToNotify, isRunning, previousLeadsData, previousLeadsArray,
                 retryCount, loginRetryCount, sinceNotification, lastNotifiedLeadIds,
                 loops, cyc, undelivered>>

\* handleRelogin, lines 1024-1056: the re-login ends, with true (line 1052)
\* or false (lines 1038 and 1055).
ReloginEnd ==
  /\ relogins.login > 0
  /\ \E loginSuccess \in BOOLEAN :
       relogins' = [relogins EXCEPT !.login = @ - 1,
                                    !.last = IF loginSuccess THEN "succeeded" ELSE "failed"]
  /\ UNCHANGED <<domPosts, notifiedAgo, minNewLeadsToNotify, isRunning, previousLeadsData, previousLeadsArray,
                 retryCount, loginRetryCount, sinceNotification, lastNotifiedLeadIds,
                 loops, cyc, undelivered>>

\* The identity the DOM-mutation callback gives a lead, line 544.
DomLeadIdOf(lead) ==
  IF Truthy(Prop(lead, "id")) THEN Prop(lead, "id") ELSE Prop(lead, "name")

DomLeadIdsOf(leads) == [i \in 1..Len(leads) |-> DomLeadIdOf(leads[i])]

\* Lines 542-554 after the call of shouldSendNotification, `r` being what it
\* returned and left: the batch is sent to the webhook if it returned true.
DomNotify(newLeads, r, n) ==
  /\ sinceNotification' = n.since
  /\ lastNotifiedLeadIds' = n.ids
  /\ notifiedAgo' =
       IF r.ret THEN LetThrough(notifiedAgo, Range(DomLeadIdsOf(newLeads)), n.ids)
       ELSE notifiedAgo
  /\ domPosts' = IF r.ret THEN domPosts \cup {newLeads} ELSE domPosts

\* The function exposed to the page at line 542, called by the listener of
\* line 558 with the leads the observer found new (one at least, line 515).
DomMutation(newLeads) ==
  /\ isRunning
  /\ Cardinality(domPosts) < MaxDomPosts
  /\ DomNotify(newLeads,
               shouldSendNotification(sinceNotification, 0, lastNotifiedLeadIds,
                                      DomLeadIdsOf(newLeads)),
               Notified(DomLeadIdsOf(newLeads)))
  /\ UNCHANGED <<minNewLeadsToNotify, isRunning, previousLeadsData, previousLeadsArray,
                 retryCount, loginRetryCount, loops, relogins, cyc, undelivered>>

\* The webhook answers a POST of the DOM-mutation path, or the request
\* fails: line 545 reads nothing of the result.
DomAnswered(newLeads) ==
  /\ newLeads \in domPosts
  /\ domPosts' = domPosts \ {newLeads}
  /\ UNCHANGED <<notifiedAgo, minNewLeadsToNotify, isRunning, previousLeadsData,
                 previousLeadsArray, retryCount, loginRetryCount, sinceNotification,
                 lastNotifiedLeadIds, loops, relogins, cyc, undelivered>>

\* Time passes.  The model does not say when a timer fires or an answer
\* arrives, only how long ago the last notification was.
Tick ==
  /\ sinceNotification < deduplicationWindow
  /\ sinceNotification' = Min(sinceNotification + TickStep, deduplicationWindow)
  /\ notifiedAgo' = Aged(notifiedAgo)
  /\ UNCHANGED <<domPosts, minNewLeadsToNotify, isRunning, previousLeadsData, previousLeadsArray,
                 retryCount, loginRetryCount, lastNotifiedLeadIds, loops, relogins, cyc,
                 undelivered>>

(***************************************************************************)
(* The detector started once and left running, its session valid: the poll *)
(* cycle with every answer of the endpoint but an auth failure, and every  *)
(* answer of the webhook.                                                  *)
(***************************************************************************)
Next ==
  \/ StartDetection
  \/ Tick
  \/ \E l \in Loops :
       \/ TimerFire(l)
       \/ FetchError(l)
       \/ \E data \in Snapshots : FetchData(l, data)
       \/ \E ok \in BOOLEAN : PostAnswered(l, ok)
       \/ PostError(l)

Spec == Init /\ [][Next]_vars

(***************************************************************************)
(* The detector polling an endpoint that answers with one of two arrays    *)
(* and posting to a webhook that answers or fails; every timer fires,      *)
(* every request is answered and time passes.                              *)
(***************************************************************************)
DeliverySnapshots == {Json(Arr(<<L1>>)), Json(Arr(<<L1, L2>>))}

Fetched(l) == \E data \in DeliverySnapshots : FetchData(l, data)

Answered(l) == PostError(l) \/ \E ok \in BOOLEAN : PostAnswered(l, ok)

NextDelivery ==
  \/ StartDetection
  \/ Tick
  \/ \E l \in Loops : TimerFire(l) \/ Fetched(l) \/ Answered(l)

Fairness ==
  /\ WF_vars(Tick)
  /\ \A l \in Loops : WF_vars(TimerFire(l)) /\ WF_vars(Fetched(l)) /\ WF_vars(Answered(l))

FairSpec == Init /\ [][NextDelivery]_vars /\ Fairness

\* The same detector in front of a webhook that may leave a request without
\* any answer: sendWebhookNotification (lines 962-1000) sets no timeout on the
\* request, so that nothing makes its promise settle.
FairnessSilentWebhook ==
  /\ WF_vars(Tick)
  /\ \A l \in Loops : WF_vars(TimerFire(l)) /\ WF_vars(Fetched(l))

FairSpecSilentWebhook == Init /\ [][NextDelivery]_vars /\ FairnessSilentWebhook

(***************************************************************************)
(* The detector with its two notification paths: the poll cycle and the    *)
(* DOM-mutation observer of the leads page, which reports the leads it     *)
(* finds new in batches of one lead or more.                               *)
(***************************************************************************)
D2 == Obj([id |-> Str("L2"), name |-> Str("Bob")])
D3 == Obj([id |-> Str("L3"), name |-> Str("Cat")])
D4 == Obj([id |-> Null, name |-> Str("Ann")])

DomBatches == {<<D2>>, <<D2, D3>>, <<D4>>}

NextDom ==
  \/ StartDetection
  \/ Tick
  \/ \E l \in Loops : TimerFire(l) \/ Fetched(l) \/ Answered(l)
  \/ \E newLeads \in DomBatches : DomMutation(newLeads) \/ DomAnswered(newLeads)

SpecDom == Init /\ [][NextDom]_vars

(***************************************************************************)
(* The same detector with a session that expires: the endpoint also        *)
(* answers with an auth failure, and the re-logins it starts run on.       *)
(***************************************************************************)
AuthSnapshots == {Json(Arr(<<L1>>)), Json(Arr(<<L1, L2>>))}

NextAuth ==
  \/ StartDetection
  \/ ReloginWake
  \/ ReloginEnd
  \/ \E l \in Loops :
       \/ TimerFire(l)
       \/ FetchAuthFailure(l)
       \/ FetchError(l)
       \/ \E data \in AuthSnapshots : FetchData(l, data)
       \/ \E ok \in BOOLEAN : PostAnswered(l, ok)

SpecAuth == Init /\ [][NextAuth]_vars

(***************************************************************************)
(* Every way a poll cycle can end: the endpoint answers with a body (a     *)
(* list, a list that makes the diff throw, an empty body), with an auth     *)
(* failure or with an error, and the webhook answers in every way.         *)
(***************************************************************************)
OutcomeSnapshots ==
  AuthSnapshots \cup {Json(Arr(<<L1, Null>>)), Text(<<>>)}

NextOutcomes ==
  \/ StartDetection
  \/ ReloginWake
  \/ ReloginEnd
  \/ \E l \in Loops :
       \/ TimerFire(l)
       \/ FetchAuthFailure(l)
       \/ FetchError(l)
       \/ \E data \in OutcomeSnapshots : FetchData(l, data)
       \/ PostError(l)
       \/ \E ok \in BOOLEAN : PostAnswered(l, ok)

SpecOutcomes == Init /\ [][NextOutcomes]_vars

(***************************************************************************)
(* The detector stopped and started again by its owner: stop at any        *)
(* moment, and initialize (which ends in startDetection) on the stopped    *)
(* detector, whatever timer or request of an earlier run is pending.       *)
(***************************************************************************)
NextStop ==
  \/ StartDetection
  \/ Stop
  \/ \E l \in Loops : TimerFire(l) \/ FetchError(l) \/ Fetched(l) \/ Answered(l)

SpecStop == Init /\ [][NextStop]_vars

(***************************************************************************)
(* One poll cycle on every pair of a baseline and a snapshot drawn from    *)
(* the arrays below: the detector has stored the baseline in a first poll  *)
(* and fetches the snapshot.                                               *)
(***************************************************************************)
MaxLen == 2

DiffRecords ==
  { L1, L2,
    Obj([id |-> Str("")]),
    Obj([id |-> Str("L1"), name |-> Str("Bob")]),
    Obj([name |-> Str("Bob")]),
    Obj([name |-> Str("Bob"), location |-> Str("X")]),
    Obj([name |-> Str("Bob"), location |-> Str("Y")]) }

DiffArrays == UNION {[1..n -> DiffRecords] : n \in 0..MaxLen}

InitDiff ==
  /\ minNewLeadsToNotify = 1
  /\ isRunning = TRUE
  /\ \E a \in DiffArrays :
       /\ previousLeadsData = Json(Arr(a))
       /\ previousLeadsArray = Arr(a)
  /\ retryCount = 0
  /\ loginRetryCount = 0
  /\ sinceNotification = deduplicationWindow
  /\ lastNotifiedLeadIds = {}
  /\ loops = [l \in Loops |-> IF l = 1 THEN Fetching ELSE Off]
  /\ relogins = [delay |-> 0, login |-> 0, last |-> "none"]
  /\ cyc = NoCycle
  /\ undelivered = {}
  /\ notifiedAgo = NoAges
  /\ domPosts = {}

NextDiff == \E a \in DiffArrays : FetchData(1, Json(Arr(a)))

SpecDiff == InitDiff /\ [][NextDiff]_vars

(***************************************************************************)
(* One poll cycle on every pair of a baseline and a snapshot drawn from    *)
(* the bodies below: texts that are not JSON, a JSON array and a JSON      *)
(* object.                                                                 *)
(***************************************************************************)
MaxWords == 2

Vocabulary == {"hello", "12:00:01", "12:00:02", "lead-7", "lead-8"}

TextBodies ==
  {Text(chunks) : chunks \in UNION {[1..n -> Vocabulary] : n \in 1..MaxWords}}
    \cup {Json(Arr(<<L1>>)), Json(Obj([leads |-> Arr(<<L1, L2>>)]))}

InitText ==
  /\ minNewLeadsToNotify \in MinChoices
  /\ isRunning = TRUE
  /\ \E body \in TextBodies :
       /\ previousLeadsData = body
       /\ previousLeadsArray = JSONparse(body)
  /\ retryCount = 0
  /\ loginRetryCount = 0
  /\ sinceNotification = deduplicationWindow
  /\ lastNotifiedLeadIds = {}
  /\ loops = [l \in Loops |-> IF l = 1 THEN Fetching ELSE Off]
  /\ relogins = [delay |-> 0, login |-> 0, last |-> "none"]
  /\ cyc = NoCycle
  /\ undelivered = {}
  /\ notifiedAgo = NoAges
  /\ domPosts = {}

NextText == \E body \in TextBodies : FetchData(1, body)

SpecText == InitText /\ [][NextText]_vars

(***************************************************************************)
(* A run of consecutive failed fetches, long enough for the backoff to     *)
(* reach its cap.                                                          *)
(***************************************************************************)
MaxFailures == 7

BackoffJitters == {0, 1, 100, 250, 500, 750, 900, JitterLimit - 1}

FailedFetch(l) ==
  /\ loops[l].pc = "fetch"
  /\ retryCount < MaxFailures
  /\ \E jitter \in BackoffJitters : Reschedule(l, jitter)
  /\ cyc' = [kind |-> "fail", data |-> NoData, batch |-> <<>>]
  /\ UNCHANGED <<domPosts, notifiedAgo, minNewLeadsToNotify, isRunning, previousLeadsData, previousLeadsArray,
                 loginRetryCount, sinceNotification, lastNotifiedLeadIds, relogins,
                 undelivered>>

NextBackoff == StartDetection \/ TimerFire(1) \/ FailedFetch(1)

SpecBackoff == Init /\ [][NextBackoff]_vars

(***************************************************************************)
(* Properties.  A step in which chain l leaves its fetch is the step in    *)
(* which pollLeadsData handles the answer of the endpoint; cyc' then holds *)
(* the branch it took, the snapshot it read and the batch of the diff.     *)
(***************************************************************************)
FetchDone(l) == loops[l].pc = "fetch" /\ loops'[l].pc # "fetch"

DedupCalled == cyc'.kind \in {"post", "suppressed"}

BaselineIs(data) == previousLeadsData = data /\ previousLeadsArray = JSONparse(data)

BaselineBecomes(data) ==
  previousLeadsData' = data /\ previousLeadsArray' = JSONparse(data)

PostOutcomes == {"post2xx", "postNon2xx", "postError"}

\* C1: the identity L2 of a batch that passed the minimum-size check and the
\* dedup check is eventually carried by a POST that completes with a 2xx
\* status, provided the webhook stops failing.
C1_AtLeastOnceDelivery ==
  (<>[](cyc.kind \notin {"postNon2xx", "postError"}))
    => ((Str("L2") \in undelivered) ~> (Str("L2") \notin undelivered))

C6_BaselineReplacedAfterDelivery ==
  cyc.kind \in PostOutcomes => BaselineIs(cyc.data)

\* C7: a batch that is not empty but smaller than minNewLeadsToNotify makes
\* no dedup check, attempts no delivery, leaves the notification state alone
\* and replaces the baseline by the snapshot.
C7_MinimumBatchRule ==
  [][\A l \in Loops :
       (FetchDone(l) /\ cyc'.kind \notin {"fail", "empty", "auth", "threw", "first"}
          /\ Len(cyc'.batch) > 0 /\ Len(cyc'.batch) < minNewLeadsToNotify)
       => /\ ~DedupCalled
          /\ loops'[l].pc = "timer"
          /\ UNCHANGED <<sinceNotification, lastNotifiedLeadIds, undelivered>>
          /\ BaselineBecomes(cyc'.data)]_vars

C7_Witness ==
  /\ minNewLeadsToNotify = 2
  /\ cyc.kind = "minor"
  /\ Len(cyc.batch) = 1
  /\ BaselineIs(cyc.data)
  /\ lastNotifiedLeadIds = {}

\* The records of an array all carry an id the code takes as one (lines 789
\* and 873 test it for truth).
AllCarryId(array) ==
  \A i \in 1..Len(array.a) : Truthy(Prop(array.a[i], "id"))

HasIdOf(array, record) ==
  \E i \in 1..Len(array.a) : Prop(array.a[i], "id") = Prop(record, "id")

NotInBaseline(baseline, current) ==
  SelectSeq(current.a, LAMBDA record : ~HasIdOf(baseline, record))

C4_NewIffNoEqualId ==
  [][FetchDone(1)
       => \A i \in 1..Len(cyc'.data.value.a) :
            Truthy(Prop(cyc'.data.value.a[i], "id"))
            => (Includes(cyc'.batch, cyc'.data.value.a[i])
                  <=> ~HasIdOf(previousLeadsArray, cyc'.data.value.a[i]))]_vars

\* C5: a dedup check on a batch that shares an identity with the identities
\* notified returns false if the last allowed check was made less than
\* deduplicationWindow ago, and true otherwise.
C5_DedupWindow ==
  [][\A l \in Loops :
       (FetchDone(l) /\ DedupCalled
          /\ Range(LeadIdsOf(cyc'.batch)) \cap lastNotifiedLeadIds # {})
       => (cyc'.kind = "suppressed" <=> sinceNotification < deduplicationWindow)]_vars

C5_Witness ==
  /\ cyc.kind = "suppressed"
  /\ sinceNotification < deduplicationWindow
  /\ Range(LeadIdsOf(cyc.batch)) \cap lastNotifiedLeadIds # {}

ReloginsInProgress == relogins.delay + relogins.login

\* C8: the step that handles an auth failure starts one re-login, counts one
\* failure and leaves the chain waiting for its backoff timer, so before the
\* next fetch.
C8_AuthFailureStartsOneRelogin ==
  [][\A l \in Loops :
       (FetchDone(l) /\ cyc'.kind = "auth")
       => /\ ReloginsInProgress' = ReloginsInProgress + 1
          /\ loginRetryCount' = loginRetryCount + 1
          /\ retryCount' = retryCount + 1
          /\ loops'[l].pc = "timer"]_vars

C8_Witness ==
  /\ cyc.kind = "auth"
  /\ retryCount = 1
  /\ loginRetryCount = 1
  /\ relogins.login = 1
  /\ \E l \in Loops : loops[l].pc = "timer"

\* C9 (as the specification states it): no fetch is under way while a
\* re-login is in progress.
C9_NoFetchDuringRelogin ==
  \A l \in Loops : loops[l].pc = "fetch" => ReloginsInProgress = 0

\* C10: without jitter the backoff delay does not decrease with the retry
\* count and does not exceed maxBackoffDelay, and once baseBackoffDelay * 2^n
\* has reached maxBackoffDelay the delay scheduled lies in
\* [maxBackoffDelay, maxBackoffDelay + 1000).
C10_BackoffMonotoneAndCapped ==
  /\ getBackoffDelay(retryCount + 1, 0) >= getBackoffDelay(retryCount, 0)
  /\ getBackoffDelay(retryCount, 0) <= maxBackoffDelay
  /\ \A l \in Loops :
       (loops[l].pc = "timer" /\ cyc.kind = "fail"
          /\ baseBackoffDelay * 2 ^ retryCount >= maxBackoffDelay)
       => /\ loops[l].delay >= maxBackoffDelay
          /\ loops[l].delay < maxBackoffDelay + JitterLimit

C10_Witness ==
  /\ retryCount = 5
  /\ cyc.kind = "fail"
  /\ loops[1].pc = "timer"
  /\ loops[1].delay = maxBackoffDelay + JitterLimit - 1

\* C11: while the detector is stopped no fetch is started, and a timer that
\* fires ends its chain: it neither fetches nor arms another timer.
C11_NoFetchAfterStop ==
  [][\A l \in Loops :
       /\ (~isRunning /\ ~isRunning' /\ loops'[l].pc = "fetch") => loops[l].pc = "fetch"
       /\ (~isRunning /\ loops[l].pc = "timer" /\ loops'[l] # loops[l])
            => loops'[l].pc = "off"]_vars

C11_Witness ==
  /\ ~isRunning
  /\ previousLeadsData # NoData
  /\ \A l \in Loops : loops[l].pc = "off"

InFlight == {l \in Loops : loops[l].pc \in {"fetch", "post"}}

\* C12 (as the specification states it): at most one poll cycle is in flight
\* at a time.
C12_OneCycleInFlight == Cardinality(InFlight) <= 1

\* C13 (as the specification states it): a fetch that brought a body never
\* counts as a failure, whatever the body holds.
C13_NormalizationNeverFails ==
  [][\A l \in Loops :
       (FetchDone(l) /\ cyc'.data # NoData /\ ~IsEmptyData(cyc'.data))
       => retryCount' <= retryCount]_vars

\* C14 (as the specification states it): a delivery ends by returning true or
\* false; it never throws into the poll cycle.
C14_DeliveryReturnsBoolean ==
  [][\A l \in Loops :
       (loops[l].pc = "post" /\ loops'[l].pc # "post")
       => cyc'.kind \in {"post2xx", "postNon2xx"}]_vars

\* The branches of a cycle whose fetch brought a body and whose diff ended.
EndedKinds == {"first", "nochange", "minor", "suppressed", "post2xx", "postNon2xx"}

\* C15 (as the specification states it): a cycle whose fetch succeeded ends
\* with retryCount = 0 and the next poll armed after pollingInterval.
C15_SuccessResetsRetryCount ==
  cyc.kind \in EndedKinds \cup {"postError"}
    => /\ retryCount = 0
       /\ \A l \in Loops : loops[l].pc = "timer" => loops[l].delay = pollingInterval

\* C16 (as the specification states it): after a cycle whose fetch succeeded
\* the baseline is the snapshot of that cycle.
C16_BaselineIsLastSnapshot ==
  cyc.kind \in EndedKinds => BaselineIs(cyc.data)

\* The diff runs in text-scan mode: not both sides are parsed arrays.
TextScanMode(previousArray, currentData) ==
  ~(IsArray(previousArray) /\ IsArray(JSONparse(currentData)))

NewIdentifierIn(previousWords, currentWords) ==
  \E i \in 1..Len(currentWords) :
    currentWords[i] \in LeadIdWords /\ ~Includes(previousWords, currentWords[i])

ChangeReported == cyc'.kind \in {"post", "suppressed", "minor"}

\* C17: in text-scan mode a change is reported only if the cleaned texts
\* differ and the snapshot holds a lead identifier the baseline lacks; without
\* a new identifier the cycle makes no dedup check and attempts no delivery.
C17_TextScanNeedsNewIdentifier ==
  [][(FetchDone(1) /\ TextScanMode(previousLeadsArray, cyc'.data))
       => /\ ChangeReported
               => /\ removeDynamicContent(previousLeadsData) # removeDynamicContent(cyc'.data)
                  /\ NewIdentifierIn(Chunks(previousLeadsData), Chunks(cyc'.data))
          /\ ~NewIdentifierIn(Chunks(previousLeadsData), Chunks(cyc'.data))
               => /\ ~ChangeReported
                  /\ loops'[1].pc = "timer"
                  /\ UNCHANGED <<sinceNotification, lastNotifiedLeadIds>>]_vars

C17_Witness ==
  /\ previousLeadsData = Text(<<"hello", "lead-7">>)
  /\ cyc.data = Text(<<"lead-7", "12:00:01">>)
  /\ cyc.kind = "nochange"
  /\ loops[1].pc = "timer"

LacksId(record) == ~Truthy(Prop(record, "id"))

\* Two records have the same fields and differ at most on the fields ignored.
DifferOnlyOn(ignored, record1, record2) ==
  /\ DOMAIN record1.f = DOMAIN record2.f
  /\ \A k \in DOMAIN record1.f \ ignored : record1.f[k] = record2.f[k]

\* Two records agree on every compared field that both have.
AgreeWherePresent(record1, record2) ==
  \A field \in fieldsToCompare :
    (HasOwn(record1, field) /\ HasOwn(record2, field))
      => record1.f[field] = record2.f[field]

\* A record without an id that some baseline record without an id matches.
Matched(Same(_, _), baseline, record) ==
  /\ LacksId(record)
  /\ \E j \in 1..Len(baseline.a) : LacksId(baseline.a[j]) /\ Same(baseline.a[j], record)

\* C18 (as the specification states it): whatever ignoreFields is set to, a
\* record without an id that differs from a baseline record without an id
\* only on ignored fields is not in the batch.
C18_IgnoredFieldsDoNotCount ==
  [][FetchDone(1)
       => \A ignored \in ignoreFieldsChoices : \A i \in 1..Len(cyc'.data.value.a) :
            Matched(LAMBDA r1, r2 : DifferOnlyOn(ignored, r1, r2),
                    previousLeadsArray, cyc'.data.value.a[i])
            => ~Includes(cyc'.batch, WithKey(cyc'.data.value.a[i]))]_vars

\* C19 (as the specification states it): a record without an id that agrees
\* with a baseline record without an id on every compared field both have is
\* not in the batch.
C19_AbsentFieldsDoNotCount ==
  [][FetchDone(1)
       => \A i \in 1..Len(cyc'.data.value.a) :
            Matched(AgreeWherePresent, previousLeadsArray, cyc'.data.value.a[i])
            => ~Includes(cyc'.batch, WithKey(cyc'.data.value.a[i]))]_vars

\* The last cycle ran the diff and left the baseline as it was.
BaselineKept == cyc.kind \in {"nochange", "postError"}

C21_StoppedReleasesEverything ==
  ~isRunning
    => /\ \A l \in Loops : loops[l].pc # "timer"
       /\ previousLeadsData = NoData
       /\ previousLeadsArray = Null
       /\ lastNotifiedLeadIds = {}

\* C22 (as the specification states it): a delivery that is pending does not
\* stay pending: whether or not the webhook answers, the delivery ends and the
\* next-poll timer of its cycle is armed.
C22_DeliveryNeverBlocksScheduler ==
  \A l \in Loops : (loops[l].pc = "post") ~> (loops[l].pc = "timer")

\* The chain l ends its cycle in this step: its fetch or its POST is over and
\* no POST follows.
CycleEnds(l) ==
  /\ loops[l].pc \in {"fetch", "post"}
  /\ loops'[l] # loops[l]
  /\ loops'[l].pc # "post"

\* C23: every poll cycle that ends, whatever its outcome, leaves its chain
\* with exactly one next-poll timer armed, and touches no other chain.
C23_EveryEndedCycleArmsOneTimer ==
  [][\A l \in Loops :
       CycleEnds(l)
       => /\ loops'[l].pc = "timer"
          /\ loops'[l].delay >= pollingInterval
          /\ \A k \in Loops \ {l} : loops'[k] = loops[k]]_vars

C23_Witness ==
  /\ cyc.kind = "threw"
  /\ retryCount = 1
  /\ \E l \in Loops : loops[l].pc = "timer" /\ loops[l].delay >= baseBackoffDelay * 2

\* C24: a dedup check made inside the window on a batch of which one identity
\* at least is among the identities notified suppresses the whole batch: no
\* POST is sent and no record of the batch is handed to the webhook, the
\* records whose identities were never notified included.
C24_WholeBatchSuppressed ==
  [][\A l \in Loops :
       (FetchDone(l) /\ DedupCalled
          /\ sinceNotification < deduplicationWindow
          /\ Range(LeadIdsOf(cyc'.batch)) \cap lastNotifiedLeadIds # {})
       => /\ cyc'.kind = "suppressed"
          /\ loops'[l].pc = "timer"
          /\ undelivered' = undelivered]_vars

C24_Witness ==
  /\ cyc.kind = "suppressed"
  /\ cyc.batch = <<L2, L3>>
  /\ Str("L2") \in lastNotifiedLeadIds
  /\ Str("L3") \notin lastNotifiedLeadIds
  /\ Str("L3") \notin undelivered
  /\ \A l \in Loops : loops[l].pc # "post"

\* C25: a dedup check that returns true sets lastNotificationTime to now, and
\* leaves in the set the identities of the batch alone if the window had
\* elapsed, and the identities it held together with those of the batch
\* otherwise.
C25_AllowedCallState ==
  [][\A l \in Loops :
       (FetchDone(l) /\ cyc'.kind = "post")
       => /\ sinceNotification' = 0
          /\ lastNotifiedLeadIds' =
               IF sinceNotification >= deduplicationWindow
               THEN Range(LeadIdsOf(cyc'.batch))
               ELSE lastNotifiedLeadIds \cup Range(LeadIdsOf(cyc'.batch))]_vars

C25_Witness ==
  /\ cyc.kind = "post"
  /\ cyc.batch = <<L3>>
  /\ sinceNotification = 0
  /\ lastNotifiedLeadIds = {Str("L2"), Str("L3")}

\* The three conditions of a delivery on the batch, read before the step.
DeliveryDue(batch) ==
  /\ Len(batch) > 0
  /\ Len(batch) >= minNewLeadsToNotify
  /\ shouldSendNotification(sinceNotification, 0, lastNotifiedLeadIds, LeadIdsOf(batch)).ret

\* C26: the step that follows a fetch sends a POST if and only if the batch
\* is not empty, has minNewLeadsToNotify records at least and passes the dedup
\* check of that step; the POST carries the whole batch, and the step that
\* ends it arms the next-poll timer: no second POST is sent in the cycle.
C26_DeliveryIffThreeConditions ==
  [][\A l \in Loops :
       /\ FetchDone(l)
          => /\ loops'[l].pc = "post" <=> DeliveryDue(cyc'.batch)
             /\ loops'[l].pc = "post"
                  => /\ cyc'.kind = "post"
                     /\ loops'[l].batch = cyc'.batch
                     /\ loops'[l].data = cyc'.data
       /\ (loops[l].pc = "post" /\ loops'[l] # loops[l])
          => loops'[l].pc = "timer"]_vars

C26_Witness ==
  /\ minNewLeadsToNotify = 2
  /\ cyc.kind = "post"
  /\ \E l \in Loops : loops[l].pc = "post" /\ loops[l].batch = <<L2, L3>>

\* C27: a fetch that fails, by an error, a non-2xx status or an auth failure,
\* adds exactly one to retryCount and arms the next-poll timer with
\* min(baseBackoffDelay * 2^retryCount, maxBackoffDelay) for the count after
\* the increment, plus a jitter in [0, 1000).
C27_FailedFetchCountsAndBacksOff ==
  [][\A l \in Loops :
       (FetchDone(l) /\ cyc'.kind \in {"fail", "auth"})
       => /\ retryCount' = retryCount + 1
          /\ loops'[l].pc = "timer"
          /\ loops'[l].delay - Min(baseBackoffDelay * 2 ^ retryCount', maxBackoffDelay)
               \in 0..(JitterLimit - 1)]_vars

C27_Witness ==
  /\ cyc.kind = "auth"
  /\ retryCount = 2
  /\ \E l \in Loops :
       loops[l].pc = "timer" /\ loops[l].delay = baseBackoffDelay * 4 + JitterLimit - 1

\* C28: a dedup check that returns false changes neither lastNotificationTime
\* nor the set of the identities notified.
C28_SuppressedCallKeepsState ==
  [][\A l \in Loops :
       (FetchDone(l) /\ cyc'.kind = "suppressed")
       => /\ sinceNotification' = sinceNotification
          /\ lastNotifiedLeadIds' = lastNotifiedLeadIds
          /\ notifiedAgo' = notifiedAgo]_vars

C28_Witness ==
  /\ cyc.kind = "suppressed"
  /\ sinceNotification = 2 * TickStep
  /\ cyc.batch = <<L2, L3>>
  /\ lastNotifiedLeadIds = {Str("L2")}

\* C29 (as the specification states it): a dedup check returns false only if
\* an identity of the batch was let through by a check made less than
\* deduplicationWindow before.
C29_SuppressionBoundedPerIdentity ==
  [][\A l \in Loops :
       (FetchDone(l) /\ cyc'.kind = "suppressed")
       => \E id \in Range(LeadIdsOf(cyc'.batch)) \cap DOMAIN notifiedAgo :
            notifiedAgo[id] < deduplicationWindow]_vars

\* C30: the cycle whose batch the dedup check suppresses stores its snapshot
\* as the baseline and sends nothing; the cycles that follow on the same
\* snapshot find no new record and send nothing either.
C30_SuppressedBatchIsDropped ==
  [][\A l \in Loops :
       /\ (FetchDone(l) /\ cyc'.kind = "suppressed")
            => /\ BaselineBecomes(cyc'.data)
               /\ loops'[l].pc = "timer"
               /\ undelivered' = undelivered
       /\ (FetchDone(l) /\ cyc.kind \in {"suppressed", "nochange"}
             /\ BaselineIs(cyc.data) /\ cyc'.data = cyc.data)
            => /\ cyc'.kind = "nochange"
               /\ cyc'.batch = <<>>
               /\ loops'[l].pc = "timer"
               /\ undelivered' = undelivered
               /\ BaselineBecomes(cyc.data)]_vars

C30_Witness ==
  /\ minNewLeadsToNotify = 1
  /\ cyc.kind = "nochange"
  /\ cyc.data = Json(Arr(<<L1, L2, L3>>))
  /\ BaselineIs(cyc.data)
  /\ lastNotifiedLeadIds = {Str("L2")}
  /\ sinceNotification < deduplicationWindow
  /\ Str("L3") \notin undelivered

\* C31 (as the specification states it): at most one call of handleRelogin is
\* in progress, waiting for its delay or logging in.
C31_AtMostOneRelogin ==
  ReloginsInProgress <= 1

\* C32 (as the specification states it): once a re-login has succeeded and
\* none is in progress, loginRetryCount is 0.
C32_LoginRetryCountResetOnSuccess ==
  (relogins.last = "succeeded" /\ ReloginsInProgress = 0) => loginRetryCount = 0

\* C33 (as the specification states it): a cycle whose fetch is answered
\* after stop was requested ends there: it sends no POST and leaves the
\* baseline and the notification state as they were.
C33_NoDeliveryAfterStop ==
  [][\A l \in Loops :
       (~isRunning /\ FetchDone(l))
       => /\ loops'[l].pc # "post"
          /\ UNCHANGED <<previousLeadsData, previousLeadsArray, sinceNotification,
                         lastNotifiedLeadIds>>]_vars

\* C34 (as the specification states it): every batch on its way to the
\* webhook, sent by a poll cycle or by the DOM-mutation callback, has
\* minNewLeadsToNotify leads at least.
C34_MinimumOnEveryPath ==
  /\ \A l \in Loops : loops[l].pc = "post" => Len(loops[l].batch) >= minNewLeadsToNotify
  /\ \A newLeads \in domPosts : Len(newLeads) >= minNewLeadsToNotify

====
